---- MODULE Spec2Model ----
(***************************************************************************)
(* Model of azul/src/gl.rs: the OpenGL resource wrappers Texture,          *)
(* FrameBuffer and GlShader over a shared Rc<Gl> context.                  *)
(*                                                                         *)
(* The Gl context is the record `gl`: the driver's object tables, its      *)
(* binding points and the list of calls the running (or last) method made. *)
(* Every driver call of the source is an operator Gl -> Gl, and every      *)
(* method of the source composes those operators in the order of its       *)
(* statements.                                                             *)
(***************************************************************************)
EXTENDS Naturals, Integers, Sequences, FiniteSets, Bags, TLC

VARIABLES
    debug_assertions,   \* build configuration: cfg(debug_assertions)
    gl,                 \* the driver state behind Rc<Gl>
    rc,                 \* strong count of the Rc<Gl>
    owner,              \* the application still holds the Rc<Gl> it created
    textures,           \* live Texture values
    framebuffers,       \* live FrameBuffer values (a bag: FrameBuffer is Clone)
    shaders,            \* live GlShader values (a bag: GlShader is Clone)
    frame,              \* the stack frame of a running GlShader::new
    created,            \* values constructed so far (new, get_framebuffer, clone)
    lastOp              \* the method that ran last, and the value it ran on

vars == <<debug_assertions, gl, rc, owner, textures, framebuffers, shaders, frame, created, lastOp>>

----------------------------------------------------------------------------
(* Bounds of the model *)

MaxCreated == 3  \* values constructed in a run: calls of Texture::new,
                 \* get_framebuffer, GlShader::new and clone, taken together
MaxDim == 2      \* width and height range over 1..MaxDim

TexNames == 1..MaxCreated
FbNames == 1..MaxCreated
ObjNames == 1..(3 * MaxCreated)   \* shader and program names share one namespace
Dims == 1..MaxDim
Sources == {"valid", "invalid"}

----------------------------------------------------------------------------
(* GL constants used by the source *)

GL_FALSE == 0
GL_TRUE == 1
FRAMEBUFFER_COMPLETE == "FRAMEBUFFER_COMPLETE"
FRAMEBUFFER_INCOMPLETE == "FRAMEBUFFER_INCOMPLETE"

NoTexture == [allocated |-> FALSE, size |-> <<0, 0>>, params |-> <<>>]
NoObject == [kind |-> "none", source |-> "", compiled |-> FALSE,
             attached |-> {}, linked |-> FALSE]

\* the four tex_parameter_i calls of Texture::new
NearestClamp == [mag |-> "NEAREST", min |-> "NEAREST",
                 wrap_s |-> "CLAMP_TO_EDGE", wrap_t |-> "CLAMP_TO_EDGE"]

----------------------------------------------------------------------------
(* The driver records each call of the running method, in order *)

Log(g, call, name) == [g EXCEPT !.calls = Append(@, <<call, name>>)]

\* a method is entered: the record of calls starts anew
Enter(g) == [g EXCEPT !.calls = <<>>]

----------------------------------------------------------------------------
(* The driver: texture calls *)

\* glGenTextures(1) returns a name that was not in use before: names are
\* handed out in order and never reused, so a count of delete calls per name
\* is a count over the whole life of the object with that name
NextTextureName(g) == g.texGen + 1

gen_textures(g, id) ==
    Log([g EXCEPT !.tex[id] = [allocated |-> TRUE, size |-> <<0, 0>>, params |-> <<>>],
                  !.texGen = id],
        "gen_textures", id)

bind_texture(g, id) == Log([g EXCEPT !.bound_texture = id], "bind_texture", id)

\* acts on the texture bound to gl::TEXTURE_2D
tex_image_2d(g, width, height) ==
    Log(IF g.bound_texture \in TexNames /\ g.tex[g.bound_texture].allocated
        THEN [g EXCEPT !.tex[g.bound_texture].size = <<width, height>>]
        ELSE g,
        "tex_image_2d", g.bound_texture)

tex_parameters(g, p) ==
    Log(IF g.bound_texture \in TexNames /\ g.tex[g.bound_texture].allocated
        THEN [g EXCEPT !.tex[g.bound_texture].params = p]
        ELSE g,
        "tex_parameter_i", g.bound_texture)

\* glDeleteTextures: the texture is freed; a deleted texture that is bound
\* reverts the binding to 0; the call is counted per name
delete_textures(g, id) ==
    Log([g EXCEPT !.tex[id] = NoTexture,
                  !.texDeletes[id] = @ + 1,
                  !.bound_texture = IF @ = id THEN 0 ELSE @],
        "delete_textures", id)

----------------------------------------------------------------------------
(* The driver: framebuffer calls *)

NextFramebufferName(g) == g.fbGen + 1

gen_framebuffers(g, id) ==
    Log([g EXCEPT !.fbs = @ \cup {id}, !.fbGen = id], "gen_framebuffers", id)

bind_framebuffer(g, id) == Log([g EXCEPT !.bound_framebuffer = id], "bind_framebuffer", id)

\* acts on the framebuffer bound to gl::FRAMEBUFFER; the default framebuffer 0
\* takes no attachment (GL_INVALID_OPERATION, no effect)
framebuffer_texture_2d(g, texture_id) ==
    Log(IF g.bound_framebuffer \in g.fbs
        THEN [g EXCEPT !.attachment[g.bound_framebuffer] = texture_id]
        ELSE g,
        "framebuffer_texture_2d", g.bound_framebuffer)

draw_buffers(g) ==
    Log(IF g.bound_framebuffer \in g.fbs
        THEN [g EXCEPT !.draw_buffer[g.bound_framebuffer] = TRUE]
        ELSE g,
        "draw_buffers", g.bound_framebuffer)

\* status of the framebuffer bound to gl::FRAMEBUFFER
check_frame_buffer_status(g) ==
    IF g.bound_framebuffer \notin g.fbs
    THEN FRAMEBUFFER_COMPLETE
    ELSE LET a == g.attachment[g.bound_framebuffer] IN
         IF a \in TexNames /\ g.tex[a].allocated /\ g.tex[a].size # <<0, 0>>
         THEN FRAMEBUFFER_COMPLETE
         ELSE FRAMEBUFFER_INCOMPLETE

viewport(g, x, y, width, height) ==
    Log([g EXCEPT !.viewport = <<x, y, width, height>>], "viewport", 0)

\* glDeleteFramebuffers: a deleted framebuffer that is bound reverts the
\* binding to 0; the call is counted per name
delete_framebuffers(g, id) ==
    Log([g EXCEPT !.fbs = @ \ {id},
                  !.attachment[id] = 0,
                  !.draw_buffer[id] = FALSE,
                  !.fbDeletes[id] = @ + 1,
                  !.bound_framebuffer = IF @ = id THEN 0 ELSE @],
        "delete_framebuffers", id)

----------------------------------------------------------------------------
(* The driver: shader and program calls *)

NextObjectName(g) == g.objGen + 1

create_shader(g, id, kind) ==
    Log([g EXCEPT !.obj[id] = [NoObject EXCEPT !.kind = kind], !.objGen = id],
        "create_shader", id)

shader_source(g, id, source) ==
    Log([g EXCEPT !.obj[id].source = source], "shader_source", id)

compile_shader(g, id) ==
    Log([g EXCEPT !.obj[id].compiled = (g.obj[id].source = "valid")], "compile_shader", id)

\* glGetShaderiv(COMPILE_STATUS): GL_TRUE if the last compile succeeded, else GL_FALSE
get_shader_iv(g, id) == IF g.obj[id].compiled THEN GL_TRUE ELSE GL_FALSE

\* the log of the last compile of this shader: a text about its stage and its
\* source; no text for a name that is not a shader object
get_shader_info_log(g, id) ==
    IF g.obj[id].kind \in {"vertex", "fragment"}
    THEN <<"compile log", g.obj[id].kind, g.obj[id].source>>
    ELSE <<>>

\* the call is counted per name (a mock driver counting delete calls)
delete_shader(g, id) ==
    Log([g EXCEPT !.obj[id] = IF @.kind \in {"vertex", "fragment"} THEN NoObject ELSE @,
                  !.objDeletes[id] = @ + 1],
        "delete_shader", id)

create_program(g, id) ==
    Log([g EXCEPT !.obj[id] = [NoObject EXCEPT !.kind = "program"], !.objGen = id],
        "create_program", id)

attach_shader(g, program, shader) ==
    Log([g EXCEPT !.obj[program].attached = @ \cup {shader}], "attach_shader", shader)

\* glLinkProgram: links only when a compiled vertex and a compiled fragment
\* shader are attached and the stages fit together (linkable: a property of
\* the two sources)
link_program(g, program, linkable) ==
    Log([g EXCEPT !.obj[program].linked =
            /\ linkable
            /\ \A s \in g.obj[program].attached : g.obj[s].compiled
            /\ {g.obj[s].kind : s \in g.obj[program].attached} = {"vertex", "fragment"}],
        "link_program", program)

\* glGetProgramiv(LINK_STATUS): GL_TRUE if the last link succeeded, else GL_FALSE
get_program_iv(g, id) == IF g.obj[id].linked THEN GL_TRUE ELSE GL_FALSE

\* the log of the last link of this program; no text for a name that is not
\* a program object
get_program_info_log(g, id) ==
    IF g.obj[id].kind = "program"
    THEN <<"link log", g.obj[id].attached, g.obj[id].linked>>
    ELSE <<>>

delete_program(g, id) ==
    Log([g EXCEPT !.obj[id] = IF @.kind = "program" THEN NoObject ELSE @,
                  !.objDeletes[id] = @ + 1],
        "delete_program", id)

----------------------------------------------------------------------------
(* Option<usize> *)

None == <<>>
Some(x) == <<x>>

\* fn get_gl_shader_error(context, shader_object) -> Option<usize>
get_gl_shader_error(g, shader_object) ==
    LET err_code == get_shader_iv(g, shader_object)
    IN  IF err_code = 0 THEN None ELSE Some(err_code)

\* fn get_gl_program_error(context, shader_object) -> Option<usize>
get_gl_program_error(g, shader_object) ==
    LET err_code == get_program_iv(g, shader_object)
    IN  IF err_code = 0 THEN None ELSE Some(err_code)

----------------------------------------------------------------------------
(* Initial state: a fresh context held by its owner, no resource created *)

InitGl ==
    [calls |-> <<>>,
     texGen |-> 0,
     tex |-> [n \in TexNames |-> NoTexture],
     texDeletes |-> [n \in TexNames |-> 0],
     bound_texture |-> 0,
     fbGen |-> 0,
     fbs |-> {},
     attachment |-> [n \in FbNames |-> 0],
     draw_buffer |-> [n \in FbNames |-> FALSE],
     fbDeletes |-> [n \in FbNames |-> 0],
     bound_framebuffer |-> 0,
     viewport |-> <<0, 0, 0, 0>>,
     objGen |-> 0,
     obj |-> [n \in ObjNames |-> NoObject],
     objDeletes |-> [n \in ObjNames |-> 0]]

IdleFrame ==
    [pc |-> "idle", vertex_shader_source |-> "", fragment_shader_source |-> "",
     linkable |-> FALSE, vertex_shader_object |-> 0, fragment_shader_object |-> 0,
     program |-> 0, result |-> <<>>]

\* no GlShader::new is running: the program is single-threaded, a method runs
\* to its end before the next one starts
Idle == frame.pc = "idle"

Init ==
    /\ debug_assertions \in BOOLEAN
    /\ gl = InitGl
    /\ rc = 1
    /\ owner = TRUE
    /\ textures = {}
    /\ framebuffers = EmptyBag
    /\ shaders = EmptyBag
    /\ frame = IdleFrame
    /\ created = 0
    /\ lastOp = <<"none", 0>>

----------------------------------------------------------------------------
(* Rc<Gl> *)

\* The application drops the Rc<Gl> it created the context with. The strong
\* count goes down by one; at zero the Gl is destroyed.
ContextDrop ==
    /\ Idle
    /\ owner
    /\ owner' = FALSE
    /\ rc' = rc - 1
    /\ gl' = Enter(gl)
    /\ lastOp' = <<"drop Rc<Gl>", 0>>
    /\ UNCHANGED <<created, debug_assertions, textures, framebuffers, shaders, frame>>

----------------------------------------------------------------------------
(* Texture *)

\* a Texture::new that binds the previously bound texture again at its end
TextureNewCalls_RestoreBinding(g, texture_id, width, height) ==
    LET g1 == gen_textures(g, texture_id)
        g2 == bind_texture(g1, texture_id)
        g3 == tex_image_2d(g2, width, height)
        g4 == tex_parameters(g3, NearestClamp)
        g5 == bind_texture(g4, g.bound_texture)
    IN  g5

\* the driver calls of Texture::new, lines 25-34
TextureNewCalls(g, texture_id, width, height) ==
    LET g1 == gen_textures(g, texture_id)
        g2 == bind_texture(g1, texture_id)
        g3 == tex_image_2d(g2, width, height)
        g4 == tex_parameters(g3, NearestClamp)
    IN  g4

\* a Texture that keeps no strong reference to the context
TextureNew_NoRc(width, height) ==
    /\ Idle
    /\ rc > 0
    /\ created < MaxCreated
    /\ LET texture_id == NextTextureName(gl)
           self == [texture_id |-> texture_id, width |-> width, height |-> height]
       IN  /\ gl' = TextureNewCalls(Enter(gl), texture_id, width, height)
           /\ textures' = textures \cup {self}
           /\ lastOp' = <<"Texture::new", self>>
    /\ rc' = rc
    /\ created' = created + 1
    /\ UNCHANGED <<owner, debug_assertions, framebuffers, shaders, frame>>

\* Texture::new(gl_context, width, height). The Rc<Gl> is passed by value and
\* kept in the Texture: the caller clones a handle of the live context (its
\* own, or the pub gl_context field of a resource) and hands it over.
TextureNew(width, height) ==
    /\ Idle
    /\ rc > 0
    /\ created < MaxCreated
    /\ LET texture_id == NextTextureName(gl)
           self == [texture_id |-> texture_id, width |-> width, height |-> height]
       IN  /\ gl' = TextureNewCalls(Enter(gl), texture_id, width, height)
           /\ textures' = textures \cup {self}
           /\ lastOp' = <<"Texture::new", self>>
    /\ rc' = rc + 1
    /\ created' = created + 1
    /\ UNCHANGED <<owner, debug_assertions, framebuffers, shaders, frame>>

\* FrameBuffer::new(texture), lines 93-96
FrameBufferNew(id, texture) == [id |-> id, texture |-> texture]

\* the driver calls of Texture::get_framebuffer, lines 46-50 (with line 91)
GetFramebufferCalls(g, id, texture_id) ==
    LET g1 == gen_framebuffers(g, id)
        g2 == framebuffer_texture_2d(g1, texture_id)
        g3 == draw_buffers(g2)
    IN  g3

\* Texture::get_framebuffer(&self); the debug_assert! of line 53 lets the call
\* return only if the bound framebuffer is complete
TextureGetFramebuffer(self) ==
    /\ Idle
    /\ self \in textures
    /\ created < MaxCreated
    /\ LET id == NextFramebufferName(gl)
           g3 == GetFramebufferCalls(Enter(gl), id, self.texture_id)
           fb == FrameBufferNew(id, self)
       IN  /\ debug_assertions => check_frame_buffer_status(g3) = FRAMEBUFFER_COMPLETE
           /\ gl' = g3
           /\ framebuffers' = framebuffers (+) SetToBag({fb})
           /\ lastOp' = <<"get_framebuffer", fb>>
    /\ created' = created + 1
    /\ UNCHANGED <<owner, debug_assertions, rc, textures, shaders, frame>>

\* a FrameBuffer that holds its Texture without borrowing it
Borrowed_Unchecked(t) == FALSE

\* FrameBuffer<'a> holds &'a Texture: the borrow checker rejects a program that
\* moves or drops the Texture while a FrameBuffer<'a> borrowing it is alive
Borrowed(t) == \E f \in BagToSet(framebuffers) : f.texture = t

\* a destructor that frees nothing
TextureDropCalls_Leak(g, self) == g

\* impl Drop for Texture
TextureDropCalls(g, self) == delete_textures(g, self.texture_id)

TextureDrop(self) ==
    /\ Idle
    /\ self \in textures
    /\ ~Borrowed(self)
    /\ gl' = TextureDropCalls(Enter(gl), self)
    /\ textures' = textures \ {self}
    /\ rc' = rc - 1
    /\ lastOp' = <<"drop Texture", self>>
    /\ UNCHANGED <<owner, created, debug_assertions, framebuffers, shaders, frame>>

----------------------------------------------------------------------------
(* Texture: PartialEq and Hash *)

\* texture_id, width and height are pub fields: every combination of an id and
\* two dimensions is a Texture value a program can hold and compare
TextureValues == [texture_id : TexNames, width : Dims, height : Dims]

\* an equality over all the fields
eq_AllFields(self, other) == self = other

\* impl PartialEq for Texture: fn eq(&self, other: &Texture) -> bool, line 69
eq(self, other) == self.texture_id = other.texture_id

\* impl Hash for Texture: fn hash(&self, state: &mut H), line 61; the hasher
\* state is the sequence of the values written to it
hash(self, state) == Append(state, self.texture_id)

\* a == b
TextureEq(self, other) ==
    /\ Idle
    /\ lastOp' = <<"eq", <<self, other>>, eq(self, other)>>
    /\ UNCHANGED <<owner, created, debug_assertions, gl, rc, textures, framebuffers, shaders, frame>>

\* a.hash(&mut state) on a fresh hasher
TextureHash(self) ==
    /\ Idle
    /\ lastOp' = <<"hash", self, hash(self, <<>>)>>
    /\ UNCHANGED <<owner, created, debug_assertions, gl, rc, textures, framebuffers, shaders, frame>>

----------------------------------------------------------------------------
(* FrameBuffer *)

\* #[derive(Clone)] on FrameBuffer: a second value with the same id and texture
FrameBufferClone(self) ==
    /\ Idle
    /\ BagIn(self, framebuffers)
    /\ created < MaxCreated
    /\ gl' = Enter(gl)
    /\ framebuffers' = framebuffers (+) SetToBag({self})
    /\ lastOp' = <<"clone FrameBuffer", self>>
    /\ created' = created + 1
    /\ UNCHANGED <<owner, debug_assertions, rc, textures, shaders, frame>>

\* a bind that leaves the framebuffer binding alone
FrameBufferBindCalls_TextureOnly(g, self) ==
    LET g1 == bind_texture(g, self.texture.texture_id)
        g3 == viewport(g1, 0, 0, self.texture.width, self.texture.height)
    IN  g3

\* the driver calls of FrameBuffer::bind, lines 100-102
FrameBufferBindCalls(g, self) ==
    LET g1 == bind_texture(g, self.texture.texture_id)
        g2 == bind_framebuffer(g1, self.id)
        g3 == viewport(g2, 0, 0, self.texture.width, self.texture.height)
    IN  g3

\* FrameBuffer::bind(&self)
FrameBufferBind(self) ==
    /\ Idle
    /\ BagIn(self, framebuffers)
    /\ gl' = FrameBufferBindCalls(Enter(gl), self)
    /\ lastOp' = <<"bind", self>>
    /\ UNCHANGED <<owner, created, debug_assertions, rc, textures, framebuffers, shaders, frame>>

\* impl Drop for GlShader
GlShaderDropCalls(g, self) == delete_program(g, self.shader_program)

\* FrameBuffer::draw(&self, shader: GlShader, vertices): the body is empty; the
\* GlShader passed by value is dropped when the call returns
FrameBufferDraw(self, shader) ==
    /\ Idle
    /\ BagIn(self, framebuffers)
    /\ BagIn(shader, shaders)
    /\ gl' = GlShaderDropCalls(Enter(gl), shader)
    /\ shaders' = shaders (-) SetToBag({shader})
    /\ rc' = rc - 1
    /\ lastOp' = <<"draw", self>>
    /\ UNCHANGED <<owner, created, debug_assertions, textures, framebuffers, frame>>

\* an unbind that leaves the framebuffer binding alone
FrameBufferUnbindCalls_TextureOnly(g) == bind_texture(g, 0)

\* an unbind that also puts the viewport back to an empty rectangle
FrameBufferUnbindCalls_ResetViewport(g) ==
    LET g1 == bind_texture(g, 0)
        g2 == bind_framebuffer(g1, 0)
        g3 == viewport(g2, 0, 0, 0, 0)
    IN  g3

\* the driver calls of FrameBuffer::unbind, lines 110-111
FrameBufferUnbindCalls(g) ==
    LET g1 == bind_texture(g, 0)
        g2 == bind_framebuffer(g1, 0)
    IN  g2

\* FrameBuffer::unbind(&self)
FrameBufferUnbind(self) ==
    /\ Idle
    /\ BagIn(self, framebuffers)
    /\ gl' = FrameBufferUnbindCalls(Enter(gl))
    /\ lastOp' = <<"unbind", self>>
    /\ UNCHANGED <<owner, created, debug_assertions, rc, textures, framebuffers, shaders, frame>>

\* a destructor that frees the texture along with the framebuffer
FrameBufferDropCalls_AlsoTexture(g, self) ==
    delete_textures(delete_framebuffers(g, self.id), self.texture.texture_id)

\* impl Drop for FrameBuffer
FrameBufferDropCalls(g, self) == delete_framebuffers(g, self.id)

FrameBufferDrop(self) ==
    /\ Idle
    /\ BagIn(self, framebuffers)
    /\ gl' = FrameBufferDropCalls(Enter(gl), self)
    /\ framebuffers' = framebuffers (-) SetToBag({self})
    /\ lastOp' = <<"drop FrameBuffer", self>>
    /\ UNCHANGED <<owner, created, debug_assertions, rc, textures, shaders, frame>>

----------------------------------------------------------------------------
(* GlShader *)

Ok(program) == <<"Ok", program>>
Err(variant, error_id, info_log) == <<"Err", variant, error_id, info_log>>

InShaderNew == UNCHANGED <<owner, created, debug_assertions, rc, textures, framebuffers, shaders, lastOp>>

\* GlShader::new(context, vertex_shader_source, fragment_shader_source): entry.
\* The Rc<Gl> is passed by value: the caller hands over one strong reference.
GlShaderNew(vertex_shader_source, fragment_shader_source, linkable) ==
    /\ Idle
    /\ rc > 0
    /\ created < MaxCreated
    /\ frame' = [IdleFrame EXCEPT !.pc = "compile_vertex",
                                  !.vertex_shader_source = vertex_shader_source,
                                  !.fragment_shader_source = fragment_shader_source,
                                  !.linkable = linkable]
    /\ gl' = Enter(gl)
    /\ rc' = rc + 1
    /\ lastOp' = <<"GlShader::new", 0>>
    /\ created' = created + 1
    /\ UNCHANGED <<owner, debug_assertions, textures, framebuffers, shaders>>

\* lines 172-174 (and 186-188)
CompileCalls(g, shader_object, kind, source) ==
    LET g1 == create_shader(g, shader_object, kind)
        g2 == shader_source(g1, shader_object, source)
        g3 == compile_shader(g2, shader_object)
    IN  g3

\* a vertex compile whose status check is compiled into every build
CompileVertex_AlwaysChecked ==
    /\ frame.pc = "compile_vertex"
    /\ LET vertex_shader_object == NextObjectName(gl)
       IN  /\ gl' = CompileCalls(gl, vertex_shader_object, "vertex",
                                 frame.vertex_shader_source)
           /\ frame' = [frame EXCEPT !.vertex_shader_object = vertex_shader_object,
                                     !.pc = "check_vertex"]
    /\ InShaderNew

\* lines 172-174
CompileVertex ==
    /\ frame.pc = "compile_vertex"
    /\ LET vertex_shader_object == NextObjectName(gl)
       IN  /\ gl' = CompileCalls(gl, vertex_shader_object, "vertex",
                                 frame.vertex_shader_source)
           /\ frame' = [frame EXCEPT !.vertex_shader_object = vertex_shader_object,
                                     !.pc = IF debug_assertions THEN "check_vertex"
                                                                ELSE "compile_fragment"]
    /\ InShaderNew

\* a cleanup that deletes the shader before it reads its log
VertexErrorCalls_DeleteFirst(g, vertex_shader_object) ==
    LET g1 == delete_shader(g, vertex_shader_object)
        g2 == Log(g1, "get_shader_info_log", vertex_shader_object)
    IN  g2

\* lines 178-179
VertexErrorCalls(g, vertex_shader_object) ==
    LET g1 == Log(g, "get_shader_info_log", vertex_shader_object)
        g2 == delete_shader(g1, vertex_shader_object)
    IN  g2

\* lines 176-182, compiled under cfg(debug_assertions)
CheckVertex ==
    /\ frame.pc = "check_vertex"
    /\ LET error == get_gl_shader_error(gl, frame.vertex_shader_object)
           g1 == Log(gl, "get_shader_iv", frame.vertex_shader_object)
       IN  IF error # None
           THEN LET error_id == error[1]
                    info_log == get_shader_info_log(g1, frame.vertex_shader_object)
                IN  /\ gl' = VertexErrorCalls(g1, frame.vertex_shader_object)
                    /\ frame' = [frame EXCEPT !.pc = "returned",
                                     !.result = Err("Compile(Vertex)", error_id, info_log)]
           ELSE /\ gl' = g1
                /\ frame' = [frame EXCEPT !.pc = "compile_fragment"]
    /\ InShaderNew

\* lines 186-188
CompileFragment ==
    /\ frame.pc = "compile_fragment"
    /\ LET fragment_shader_object == NextObjectName(gl)
       IN  /\ gl' = CompileCalls(gl, fragment_shader_object, "fragment",
                                 frame.fragment_shader_source)
           /\ frame' = [frame EXCEPT !.fragment_shader_object = fragment_shader_object,
                                     !.pc = IF debug_assertions THEN "check_fragment"
                                                                ELSE "link"]
    /\ InShaderNew

\* a cleanup that frees only the shader that failed
FragmentErrorCalls_LeakVertex(g, vertex_shader_object, fragment_shader_object) ==
    LET g1 == Log(g, "get_shader_info_log", fragment_shader_object)
        g2 == delete_shader(g1, fragment_shader_object)
    IN  g2

\* lines 192-194
FragmentErrorCalls(g, vertex_shader_object, fragment_shader_object) ==
    LET g1 == Log(g, "get_shader_info_log", fragment_shader_object)
        g2 == delete_shader(g1, vertex_shader_object)
        g3 == delete_shader(g2, fragment_shader_object)
    IN  g3

\* lines 190-197, compiled under cfg(debug_assertions)
CheckFragment ==
    /\ frame.pc = "check_fragment"
    /\ LET error == get_gl_shader_error(gl, frame.fragment_shader_object)
           g1 == Log(gl, "get_shader_iv", frame.fragment_shader_object)
       IN  IF error # None
           THEN LET error_id == error[1]
                    info_log == get_shader_info_log(g1, frame.fragment_shader_object)
                IN  /\ gl' = FragmentErrorCalls(g1, frame.vertex_shader_object,
                                                frame.fragment_shader_object)
                    /\ frame' = [frame EXCEPT !.pc = "returned",
                                     !.result = Err("Compile(Fragment)", error_id, info_log)]
           ELSE /\ gl' = g1
                /\ frame' = [frame EXCEPT !.pc = "link"]
    /\ InShaderNew

\* lines 201-204
LinkCalls(g, program, vertex_shader_object, fragment_shader_object, linkable) ==
    LET g1 == create_program(g, program)
        g2 == attach_shader(g1, program, vertex_shader_object)
        g3 == attach_shader(g2, program, fragment_shader_object)
        g4 == link_program(g3, program, linkable)
    IN  g4

LinkProgram ==
    /\ frame.pc = "link"
    /\ LET program == NextObjectName(gl)
       IN  /\ gl' = LinkCalls(gl, program, frame.vertex_shader_object,
                              frame.fragment_shader_object, frame.linkable)
           /\ frame' = [frame EXCEPT !.program = program,
                                     !.pc = IF debug_assertions THEN "check_program"
                                                                ELSE "finish"]
    /\ InShaderNew

\* lines 208-211
LinkErrorCalls(g, vertex_shader_object, fragment_shader_object, program) ==
    LET g1 == Log(g, "get_program_info_log", program)
        g2 == delete_shader(g1, vertex_shader_object)
        g3 == delete_shader(g2, fragment_shader_object)
        g4 == delete_program(g3, program)
    IN  g4

\* lines 206-214, compiled under cfg(debug_assertions)
CheckProgram ==
    /\ frame.pc = "check_program"
    /\ LET error == get_gl_program_error(gl, frame.program)
           g1 == Log(gl, "get_program_iv", frame.program)
       IN  IF error # None
           THEN LET error_id == error[1]
                    info_log == get_program_info_log(g1, frame.program)
                IN  /\ gl' = LinkErrorCalls(g1, frame.vertex_shader_object,
                                            frame.fragment_shader_object, frame.program)
                    /\ frame' = [frame EXCEPT !.pc = "returned",
                                     !.result = Err("Link", error_id, info_log)]
           ELSE /\ gl' = g1
                /\ frame' = [frame EXCEPT !.pc = "finish"]
    /\ InShaderNew

\* lines 216-217
FinishCalls(g, vertex_shader_object, fragment_shader_object) ==
    LET g1 == delete_shader(g, vertex_shader_object)
        g2 == delete_shader(g1, fragment_shader_object)
    IN  g2

\* lines 216-222
Finish ==
    /\ frame.pc = "finish"
    /\ gl' = FinishCalls(gl, frame.vertex_shader_object, frame.fragment_shader_object)
    /\ frame' = [frame EXCEPT !.pc = "returned", !.result = Ok(frame.program)]
    /\ InShaderNew

\* The caller receives the Result: an Ok value is a live GlShader that owns the
\* Rc<Gl> handed in; on Err the Rc<Gl> is dropped with the frame.
GlShaderReturn ==
    /\ frame.pc = "returned"
    /\ IF frame.result[1] = "Ok"
       THEN /\ shaders' = shaders (+) SetToBag({[shader_program |-> frame.result[2]]})
            /\ rc' = rc
       ELSE /\ shaders' = shaders
            /\ rc' = rc - 1
    /\ frame' = IdleFrame
    /\ UNCHANGED <<owner, created, debug_assertions, gl, textures, framebuffers, lastOp>>

\* #[derive(Clone)] on GlShader: a second value with the same shader_program
GlShaderClone(self) ==
    /\ Idle
    /\ BagIn(self, shaders)
    /\ created < MaxCreated
    /\ gl' = Enter(gl)
    /\ shaders' = shaders (+) SetToBag({self})
    /\ rc' = rc + 1
    /\ lastOp' = <<"clone GlShader", self>>
    /\ created' = created + 1
    /\ UNCHANGED <<owner, debug_assertions, textures, framebuffers, frame>>

\* impl Drop for GlShader
GlShaderDrop(self) ==
    /\ Idle
    /\ BagIn(self, shaders)
    /\ gl' = GlShaderDropCalls(Enter(gl), self)
    /\ shaders' = shaders (-) SetToBag({self})
    /\ rc' = rc - 1
    /\ lastOp' = <<"drop GlShader", self>>
    /\ UNCHANGED <<owner, created, debug_assertions, textures, framebuffers, frame>>

----------------------------------------------------------------------------
(* Specifications *)

Programs == {[shader_program |-> p] : p \in ObjNames}
FrameBuffers == BagToSet(framebuffers)

\* the Texture and FrameBuffer methods
NextTexture ==
    \/ \E width \in Dims, height \in Dims : TextureNew(width, height)
    \/ \E t \in textures : TextureGetFramebuffer(t)
    \/ \E t \in textures : TextureDrop(t)
    \/ \E f \in FrameBuffers : FrameBufferClone(f)
    \/ \E f \in FrameBuffers : FrameBufferBind(f)
    \/ \E f \in FrameBuffers : FrameBufferUnbind(f)
    \/ \E f \in FrameBuffers : FrameBufferDrop(f)

\* the GlShader methods
NextShader ==
    \/ \E v \in Sources, f \in Sources, linkable \in BOOLEAN : GlShaderNew(v, f, linkable)
    \/ CompileVertex
    \/ CheckVertex
    \/ CompileFragment
    \/ CheckFragment
    \/ LinkProgram
    \/ CheckProgram
    \/ Finish
    \/ GlShaderReturn
    \/ \E s \in Programs : GlShaderClone(s)
    \/ \E s \in Programs : GlShaderDrop(s)

\* FrameBuffer::draw takes a FrameBuffer and a GlShader
NextDraw == \E f \in FrameBuffers, s \in Programs : FrameBufferDraw(f, s)

\* the application lets go of its own handle of the context
NextContext == ContextDrop

Next == NextTexture \/ NextShader \/ NextDraw \/ NextContext

Spec == Init /\ [][Next]_vars
SpecTexture == Init /\ [][NextTexture]_vars
SpecShader == Init /\ [][NextShader]_vars

\* comparing and hashing Texture values
NextCompare ==
    \/ \E a \in TextureValues, b \in TextureValues : TextureEq(a, b)
    \/ \E a \in TextureValues : TextureHash(a)

SpecCompare == Init /\ [][NextCompare]_vars

----------------------------------------------------------------------------
(* Reading the record of calls *)

CallIndexes(call) == {i \in DOMAIN gl.calls : gl.calls[i][1] = call}
CallsNamed(call) == {gl.calls[i][2] : i \in CallIndexes(call)}
CountCalls(call) == Cardinality(CallIndexes(call))
IndexesOf(call, name) == {i \in CallIndexes(call) : gl.calls[i][2] = name}

Returned == frame.pc = "returned"
IsErr(variant) == frame.result[1] = "Err" /\ frame.result[2] = variant
Freed(n) == gl.obj[n].kind = "none" /\ IndexesOf("delete_shader", n) # {}

VertexCompiles == frame.vertex_shader_source = "valid"
FragmentCompiles == frame.fragment_shader_source = "valid"

\* the status the driver reports for a shader built from this source
CompileStatus(source) == IF source = "valid" THEN GL_TRUE ELSE GL_FALSE

----------------------------------------------------------------------------
(* GlShader::new *)

\* C1: when GlShader::new returns, on any exit path, every name returned by
\* create_shader during the call has been passed to delete_shader and no
\* shader object of the call is left allocated. The link-failure cleanup is
\* checked where it would run (after link_program), taken or not.
C1_NoShaderObjectLeaked ==
    /\ Returned =>
         \A n \in CallsNamed("create_shader") :
             n \in CallsNamed("delete_shader") /\ gl.obj[n].kind = "none"
    /\ frame.pc = "check_program" =>
         LET g == LinkErrorCalls(gl, frame.vertex_shader_object,
                                 frame.fragment_shader_object, frame.program)
         IN  \A i \in DOMAIN g.calls :
                 g.calls[i][1] = "create_shader" =>
                     /\ g.obj[g.calls[i][2]].kind = "none"
                     /\ \E j \in DOMAIN g.calls :
                            g.calls[j] = <<"delete_shader", g.calls[i][2]>>

\* an error exit after both shader objects were created
C1_Witness ==
    /\ Returned
    /\ IsErr("Compile(Fragment)")
    /\ CallsNamed("create_shader") =
           {frame.vertex_shader_object, frame.fragment_shader_object}
    /\ CountCalls("delete_shader") = 2

\* C2: in a debug build, whenever the vertex shader fails to compile,
\* GlShader::new returns Err(Compile(Vertex(_))), the vertex shader object is
\* deleted, and neither a fragment shader nor a program is created.
C2_VertexFailure ==
    (debug_assertions /\ Returned /\ ~VertexCompiles) =>
        /\ IsErr("Compile(Vertex)")
        /\ Freed(frame.vertex_shader_object)
        /\ CountCalls("create_shader") = 1
        /\ CountCalls("create_program") = 0

\* C3: in a debug build, whenever the vertex shader compiles and the fragment
\* shader fails to compile, GlShader::new returns Err(Compile(Fragment(_))),
\* both shader objects are deleted and no program is created.
C3_FragmentFailure ==
    (debug_assertions /\ Returned /\ VertexCompiles /\ ~FragmentCompiles) =>
        /\ IsErr("Compile(Fragment)")
        /\ Freed(frame.vertex_shader_object)
        /\ Freed(frame.fragment_shader_object)
        /\ CountCalls("create_program") = 0

\* C4: in a debug build, whenever both shaders compile and linking fails,
\* GlShader::new returns Err(Link(_)) and the vertex shader, the fragment
\* shader and the program are all deleted.
C4_LinkFailure ==
    (debug_assertions /\ Returned /\ VertexCompiles /\ FragmentCompiles /\ ~frame.linkable) =>
        /\ IsErr("Link")
        /\ Freed(frame.vertex_shader_object)
        /\ Freed(frame.fragment_shader_object)
        /\ gl.obj[frame.program].kind = "none"
        /\ IndexesOf("delete_program", frame.program) # {}

\* C5: when both shaders compile and the link succeeds, GlShader::new calls
\* create_program once, returns Ok with that program, still allocated, and
\* deletes both shader objects only after link_program.
C5_Success ==
    (Returned /\ VertexCompiles /\ FragmentCompiles /\ frame.linkable) =>
        /\ CountCalls("create_program") = 1
        /\ frame.result = Ok(frame.program)
        /\ gl.obj[frame.program].kind = "program"
        /\ Freed(frame.vertex_shader_object)
        /\ Freed(frame.fragment_shader_object)
        /\ \A d \in CallIndexes("delete_shader") :
               \E l \in CallIndexes("link_program") : l < d

\* C6: in a debug build, a queried status of zero takes the error path (the
\* call goes on past a check only with a nonzero status), and the error_id
\* of an error record is the status that was queried.
C6_ZeroStatusIsFailure ==
    debug_assertions =>
        /\ frame.pc = "compile_fragment" =>
               get_shader_iv(gl, frame.vertex_shader_object) # 0
        /\ frame.pc = "link" =>
               get_shader_iv(gl, frame.fragment_shader_object) # 0
        /\ frame.pc = "finish" =>
               get_program_iv(gl, frame.program) # 0
        /\ (Returned /\ IsErr("Compile(Vertex)")) =>
               frame.result[3] = CompileStatus(frame.vertex_shader_source)
        /\ (Returned /\ IsErr("Compile(Fragment)")) =>
               frame.result[3] = CompileStatus(frame.fragment_shader_source)

----------------------------------------------------------------------------
(* Texture and FrameBuffer *)

Dropped(n) == n <= gl.texGen /\ ~\E t \in textures : t.texture_id = n

\* C7: Texture::new generates exactly one texture name; while the Texture
\* lives its name is allocated and has never been passed to delete_textures;
\* dropping it passes that name to delete_textures exactly once and leaves
\* no texture allocated for it, whatever the width and height.
C7_TextureDeletedExactlyOnce ==
    /\ \A t \in textures :
           gl.tex[t.texture_id].allocated /\ gl.texDeletes[t.texture_id] = 0
    /\ \A n \in TexNames :
           Dropped(n) => ~gl.tex[n].allocated /\ gl.texDeletes[n] = 1
    /\ lastOp[1] = "Texture::new" =>
           /\ CountCalls("gen_textures") = 1
           /\ CallsNamed("gen_textures") = {lastOp[2].texture_id}
    /\ lastOp[1] = "drop Texture" =>
           gl.calls = << <<"delete_textures", lastOp[2].texture_id>> >>

\* a Texture of unequal sides was created and dropped, and none is left
C7_Witness ==
    /\ lastOp[1] = "drop Texture"
    /\ lastOp[2].width # lastOp[2].height
    /\ gl.texDeletes[lastOp[2].texture_id] = 1
    /\ \A n \in TexNames : ~gl.tex[n].allocated

\* C8: every live FrameBuffer references a Texture that is still live and
\* whose texture name has not been deleted.
C8_FrameBufferTextureLive ==
    \A f \in FrameBuffers :
        /\ f.texture \in textures
        /\ gl.tex[f.texture.texture_id].allocated
        /\ gl.texDeletes[f.texture.texture_id] = 0

\* a FrameBuffer was dropped while a clone of it is still alive
C8_Witness ==
    /\ lastOp[1] = "drop FrameBuffer"
    /\ BagIn(lastOp[2], framebuffers)

\* after FrameBuffer::bind on f: TEXTURE_2D is f's texture, FRAMEBUFFER is f's
\* own name, the viewport is the texture's full size, which is the size the
\* texture was created with
C9_BindPost ==
    lastOp[1] = "bind" =>
        LET f == lastOp[2] IN
        /\ gl.bound_texture = f.texture.texture_id
        /\ gl.bound_framebuffer = f.id
        /\ gl.viewport = <<0, 0, f.texture.width, f.texture.height>>
        /\ gl.tex[f.texture.texture_id].size = <<f.texture.width, f.texture.height>>

\* a draw call leaves the bindings and the viewport as they are
C9_DrawKeepsTarget ==
    lastOp'[1] = "draw" =>
        /\ gl'.bound_texture = gl.bound_texture
        /\ gl'.bound_framebuffer = gl.bound_framebuffer
        /\ gl'.viewport = gl.viewport

\* C9: FrameBuffer::bind makes the texture and the framebuffer the render
\* target with the texture's full size as viewport, and draw calls keep it.
C9_BindThenDraw == [](C9_BindPost) /\ [][C9_DrawKeepsTarget]_vars

\* a draw call on the framebuffer that is bound, the viewport at its size
C9_Witness ==
    /\ lastOp[1] = "draw"
    /\ gl.bound_framebuffer = lastOp[2].id
    /\ gl.bound_texture = lastOp[2].texture.texture_id
    /\ gl.viewport = <<0, 0, lastOp[2].texture.width, lastOp[2].texture.height>>
    /\ lastOp[2].texture.width # lastOp[2].texture.height

\* C10: after FrameBuffer::unbind the bound TEXTURE_2D and the bound
\* FRAMEBUFFER are both 0.
C10_UnbindPost ==
    lastOp[1] = "unbind" => gl.bound_texture = 0 /\ gl.bound_framebuffer = 0

\* an unbind after a bind: the viewport is still the one bind set
C10_Witness ==
    /\ lastOp[1] = "unbind"
    /\ gl.viewport # <<0, 0, 0, 0>>
    /\ gl.bound_framebuffer = 0

\* C11: Texture::get_framebuffer generates one framebuffer and, when it
\* returns, the framebuffer whose id the returned FrameBuffer holds has this
\* texture as its color attachment 0, whatever was bound before the call; the
\* attachment (and with it the completeness check) is made on that framebuffer.
C11_NewFramebufferAttached ==
    lastOp[1] = "get_framebuffer" =>
        /\ CountCalls("gen_framebuffers") = 1
        /\ CallsNamed("gen_framebuffers") = {lastOp[2].id}
        /\ gl.attachment[lastOp[2].id] = lastOp[2].texture.texture_id
        /\ CallsNamed("framebuffer_texture_2d") = {lastOp[2].id}

----------------------------------------------------------------------------
(* Ownership of programs and framebuffers *)

\* C12: over GlShader::new, clone and drop, each linked program is passed to
\* delete_program exactly once: not while a GlShader holding it is alive,
\* once when the last GlShader holding it is dropped, and never a second time.
C12_ProgramDeletedExactlyOnce ==
    /\ \A s \in BagToSet(shaders) :
           /\ gl.obj[s.shader_program].kind = "program"
           /\ gl.objDeletes[s.shader_program] = 0
    /\ \A n \in ObjNames : gl.objDeletes[n] <= 1
    /\ (lastOp[1] = "drop GlShader" /\ ~BagIn(lastOp[2], shaders)) =>
           gl.objDeletes[lastOp[2].shader_program] = 1

\* after a FrameBuffer was dropped: the one driver call was delete_framebuffers
\* on its own id; its Texture is live, allocated, never deleted, of the same size
C13_DropPost ==
    lastOp[1] = "drop FrameBuffer" =>
        LET f == lastOp[2] IN
        /\ gl.calls = << <<"delete_framebuffers", f.id>> >>
        /\ f.texture \in textures
        /\ gl.tex[f.texture.texture_id].allocated
        /\ gl.texDeletes[f.texture.texture_id] = 0
        /\ gl.tex[f.texture.texture_id].size = <<f.texture.width, f.texture.height>>

\* the drop of a FrameBuffer changes no Texture value and no texture state
C13_DropFrame ==
    lastOp'[1] = "drop FrameBuffer" =>
        /\ textures' = textures
        /\ gl'.tex = gl.tex
        /\ gl'.texDeletes = gl.texDeletes
        /\ gl'.texGen = gl.texGen

\* C13: dropping a FrameBuffer issues delete_framebuffers for its own id and
\* nothing else: the texture it references stays allocated, the texture id is
\* not deleted, and the Texture's width, height and id are unchanged.
C13_DropDeletesOnlyFramebuffer == [](C13_DropPost) /\ [][C13_DropFrame]_vars

\* a FrameBuffer of a Texture of unequal sides was dropped, its id deleted once
C13_Witness ==
    /\ lastOp[1] = "drop FrameBuffer"
    /\ lastOp[2].texture.width # lastOp[2].texture.height
    /\ gl.fbDeletes[lastOp[2].id] = 1
    /\ gl.tex[lastOp[2].texture.texture_id].allocated

----------------------------------------------------------------------------
(* Texture equality *)

\* C14: Texture equality and hashing depend on the texture id only: a == b
\* exactly when a.texture_id = b.texture_id, whatever the widths and heights,
\* and equal Textures write the same values to a hasher.
C14_EqualityById ==
    lastOp[1] = "eq" =>
        LET a == lastOp[2][1]
            b == lastOp[2][2]
        IN  /\ lastOp[3] = (a.texture_id = b.texture_id)
            /\ lastOp[3] => hash(a, <<>>) = hash(b, <<>>)

\* two Textures of one id and different sizes compared equal
C14_Witness ==
    /\ lastOp[1] = "eq"
    /\ lastOp[2][1].texture_id = lastOp[2][2].texture_id
    /\ lastOp[2][1].width # lastOp[2][2].width
    /\ lastOp[2][1].height # lastOp[2][2].height
    /\ lastOp[3] = TRUE

----------------------------------------------------------------------------
(* The context outlives its resources *)

\* while a Texture, a FrameBuffer or a GlShader exists (or GlShader::new runs)
\* the strong count of the Rc<Gl> is above zero
C15_AliveWhileHeld ==
    (textures # {} \/ framebuffers # EmptyBag \/ shaders # EmptyBag \/ ~Idle) => rc > 0

\* every step that makes a driver call starts with a live context
C15_CallsOnLiveContext ==
    (gl'.calls # <<>> /\ gl' # gl) => rc > 0

\* C15: in every reachable state the context is alive (its reference count is
\* above zero) whenever a Texture, FrameBuffer or GlShader created through it
\* exists; every destructor's delete call runs on a live context.
C15_ContextOutlivesResources == [](C15_AliveWhileHeld) /\ [][C15_CallsOnLiveContext]_vars

\* the application dropped its handle, and a FrameBuffer was dropped after it
\* while its Texture holds the last reference
C15_Witness ==
    /\ ~owner
    /\ lastOp[1] = "drop FrameBuffer"
    /\ gl.calls = << <<"delete_framebuffers", lastOp[2].id>> >>
    /\ rc = 1

----------------------------------------------------------------------------
(* The failure paths of GlShader::new *)

\* in a sequence of calls: the log of object n is fetched once, before n is
\* deleted, n is deleted, and after the fetch there are only delete calls
LogThenDelete(calls, logCall, deleteCall, n) ==
    LET logs == {i \in DOMAIN calls : calls[i] = <<logCall, n>>}
        deletes == {i \in DOMAIN calls : calls[i] = <<deleteCall, n>>}
    IN  /\ Cardinality(logs) = 1
        /\ deletes # {}
        /\ \A l \in logs :
               /\ \A d \in deletes : l < d
               /\ \A i \in DOMAIN calls :
                      i > l => calls[i][1] \in {"delete_shader", "delete_program"}

\* GlShader::new has returned an Err: the calls it made
C16_FailurePost ==
    (Returned /\ frame.result[1] = "Err") =>
        /\ IsErr("Compile(Vertex)") =>
               LogThenDelete(gl.calls, "get_shader_info_log", "delete_shader",
                             frame.vertex_shader_object)
        /\ IsErr("Compile(Fragment)") =>
               LogThenDelete(gl.calls, "get_shader_info_log", "delete_shader",
                             frame.fragment_shader_object)
        /\ IsErr("Link") =>
               LogThenDelete(gl.calls, "get_program_info_log", "delete_program",
                             frame.program)

\* the link-failure path, lines 208-212, where it would run
C16_LinkFailurePath ==
    frame.pc = "check_program" =>
        LET g == LinkErrorCalls(gl, frame.vertex_shader_object,
                                frame.fragment_shader_object, frame.program)
        IN  LogThenDelete(g.calls, "get_program_info_log", "delete_program",
                          frame.program)

\* the step that returns an Err puts the log of the failing object, as it is
\* before the cleanup, into the error record
C16_ErrorCarriesLog ==
    (frame.pc # "returned" /\ frame'.pc = "returned" /\ frame'.result[1] = "Err") =>
        /\ frame'.result[4] # <<>>
        /\ frame.pc = "check_vertex" =>
               frame'.result[4] = get_shader_info_log(gl, frame.vertex_shader_object)
        /\ frame.pc = "check_fragment" =>
               frame'.result[4] = get_shader_info_log(gl, frame.fragment_shader_object)
        /\ frame.pc = "check_program" =>
               frame'.result[4] = get_program_info_log(gl, frame.program)

\* once the result is set the invocation makes no driver call
C16_ReturnsAtOnce == frame.pc = "returned" => gl' = gl

\* C16: on every failure path of GlShader::new the log is fetched from the
\* failing object before that object is deleted, the error record carries that
\* log, and the error is returned with no later create, attach or link call.
C16_FailurePath ==
    /\ [](C16_FailurePost /\ C16_LinkFailurePath)
    /\ [][C16_ErrorCarriesLog /\ C16_ReturnsAtOnce]_vars

\* an Err(Compile(Fragment)) was returned with the fragment shader's log
C16_Witness ==
    /\ Returned
    /\ IsErr("Compile(Fragment)")
    /\ frame.result[4] = <<"compile log", "fragment", frame.fragment_shader_source>>
    /\ gl.obj[frame.fragment_shader_object].kind = "none"

----------------------------------------------------------------------------
(* Framebuffer names *)

\* C17: over get_framebuffer, FrameBuffer clone and FrameBuffer drop, each
\* framebuffer id returned by gen_framebuffers is passed to
\* delete_framebuffers at most once.
C17_FramebufferDeletedAtMostOnce ==
    \A n \in FbNames : gl.fbDeletes[n] <= 1

----------------------------------------------------------------------------
(* The frame of unbind and of Texture::new *)

\* FrameBuffer::unbind makes two calls, bind_texture(0) and bind_framebuffer(0)
C18_UnbindCalls ==
    lastOp[1] = "unbind" =>
        gl.calls = << <<"bind_texture", 0>>, <<"bind_framebuffer", 0>> >>

\* of the driver state an unbind changes the two bindings only
C18_UnbindFrame ==
    lastOp'[1] = "unbind" =>
        /\ gl'.viewport = gl.viewport
        /\ [gl' EXCEPT !.calls = <<>>, !.bound_texture = 0, !.bound_framebuffer = 0]
             = [gl EXCEPT !.calls = <<>>, !.bound_texture = 0, !.bound_framebuffer = 0]
        /\ textures' = textures /\ framebuffers' = framebuffers

\* an unbind right after a bind leaves the viewport at the size of the
\* texture that was bound, not at what it was before the bind
C18_ViewportOfLastBind ==
    (lastOp[1] = "bind" /\ lastOp'[1] = "unbind") =>
        gl'.viewport = <<0, 0, lastOp[2].texture.width, lastOp[2].texture.height>>

\* C18: FrameBuffer::unbind changes only the texture binding and the
\* framebuffer binding; the viewport stays at what the last bind() set, so
\* bind() followed by unbind() does not restore the state before the bind.
C18_UnbindKeepsViewport ==
    /\ [](C18_UnbindCalls)
    /\ [][C18_UnbindFrame /\ C18_ViewportOfLastBind]_vars

\* after bind() and unbind() the bindings are 0 again while the viewport is
\* the texture's size and not the viewport the context started with
C18_Witness ==
    /\ lastOp[1] = "unbind"
    /\ gl.bound_texture = 0
    /\ gl.viewport = <<0, 0, lastOp[2].texture.width, lastOp[2].texture.height>>
    /\ lastOp[2].texture.width # lastOp[2].texture.height
    /\ gl.viewport # InitGl.viewport

----------------------------------------------------------------------------
(* GlShader::new without debug assertions *)

\* C19: in a build without debug assertions GlShader::new makes no status
\* query and takes no error path: whatever the outcome of compiling and
\* linking, it creates a vertex shader, a fragment shader and a program,
\* deletes both shader objects and returns the program as a success value.
C19_ReleaseNeverFails ==
    (~debug_assertions /\ Returned) =>
        LET v == frame.vertex_shader_object
            f == frame.fragment_shader_object
            p == frame.program
        IN  /\ gl.calls = << <<"create_shader", v>>, <<"shader_source", v>>,
                             <<"compile_shader", v>>,
                             <<"create_shader", f>>, <<"shader_source", f>>,
                             <<"compile_shader", f>>,
                             <<"create_program", p>>, <<"attach_shader", v>>,
                             <<"attach_shader", f>>, <<"link_program", p>>,
                             <<"delete_shader", v>>, <<"delete_shader", f>> >>
            /\ Cardinality({v, f, p}) = 3
            /\ frame.result = Ok(p)
            /\ gl.obj[p].kind = "program"
            /\ gl.obj[v].kind = "none" /\ gl.obj[f].kind = "none"

\* a release build returned Ok for sources that neither compile nor link
C19_Witness ==
    /\ ~debug_assertions
    /\ Returned
    /\ ~VertexCompiles /\ ~FragmentCompiles /\ ~frame.linkable
    /\ frame.result = Ok(frame.program)
    /\ ~gl.obj[frame.program].linked

\* when Texture::new has returned, the new texture is bound to TEXTURE_2D
C20_NewTextureBound ==
    lastOp[1] = "Texture::new" =>
        /\ gl.bound_texture = lastOp[2].texture_id
        /\ IndexesOf("bind_texture", lastOp[2].texture_id) # {}
        /\ CountCalls("bind_texture") = 1

\* Texture::new changes neither the framebuffer binding nor the viewport
C20_NewFrame ==
    lastOp'[1] = "Texture::new" =>
        /\ gl'.bound_framebuffer = gl.bound_framebuffer
        /\ gl'.viewport = gl.viewport

\* a Texture::new right after a bind(): the framebuffer stays bound, its
\* texture does not
C20_NewAfterBind ==
    (lastOp[1] = "bind" /\ lastOp'[1] = "Texture::new") =>
        /\ gl'.bound_framebuffer = lastOp[2].id
        /\ gl'.bound_texture # lastOp[2].texture.texture_id
        /\ gl'.bound_texture = lastOp'[2].texture_id

\* C20: Texture::new leaves the new texture bound to TEXTURE_2D (it does not
\* restore the texture bound before) and changes neither the framebuffer
\* binding nor the viewport; a texture created between a framebuffer's bind()
\* and unbind() replaces the texture binding while the framebuffer stays bound.
C20_NewLeavesTextureBound ==
    /\ [](C20_NewTextureBound)
    /\ [][C20_NewFrame /\ C20_NewAfterBind]_vars

\* a Texture was created while a live FrameBuffer of another Texture is bound
C20_Witness ==
    /\ lastOp[1] = "Texture::new"
    /\ \E f \in FrameBuffers :
           /\ gl.bound_framebuffer = f.id
           /\ gl.viewport = <<0, 0, f.texture.width, f.texture.height>>
           /\ gl.bound_texture # f.texture.texture_id
    /\ gl.bound_texture = lastOp[2].texture_id

====
